---- MODULE Spec2Model ----
(***************************************************************************)
(* Lyric timeline synchronisation and frame export of the karaoke video    *)
(* player (src/components/VideoPlayer.tsx, src/App.tsx).                   *)
(*                                                                         *)
(* Specifications: SpecSampler and SpecBackground apply the selection      *)
(* functions to drawn inputs; Spec is the live player (play, pause, seek,  *)
(* refresh, end of the audio), SpecQueries the same under observation,     *)
(* SpecClock the same from its mount and with a duration that changes,     *)
(* and SpecGenerate the same with the generation of the backgrounds;       *)
(* SpecExport and SpecExportMany are the calls of handleExport on the      *)
(* shared encoder.                                                         *)
(*                                                                         *)
(* Time is counted in ticks; one second is TickRate ticks and TickRate is  *)
(* a multiple of frameRate, so every frame time i / frameRate is a whole   *)
(* number of ticks and the live position can also fall between two frames. *)
(* A text is a sequence of one-character strings, an optional line         *)
(* (`x || null`) is a sequence of length at most one, and a quotient is a  *)
(* record [num, den] that is never reduced or evaluated.                   *)
(***************************************************************************)
EXTENDS Integers, Sequences, FiniteSets, TLC

VARIABLES timedLyrics, duration, currentTime, lyricLines, frame,
          aiImages, currentBg,
          isPlaying, audio, animationFrameRef, reveal, probe,
          isExporting, exportProgress, jobs, ffmpeg, FS,
          loading, isAiUnlocked, isGeneratingAi, aiGenerationProgress,
          generation

(* What the player is handed and what the export loop last rendered. *)
props == <<timedLyrics, duration, aiImages>>

(* What a render of the live player derives. *)
rendered == <<lyricLines, currentBg, reveal>>

(* The play state, the audio element and the refresh callback. *)
clock == <<isPlaying, audio, animationFrameRef>>

(* The generation of the backgrounds: the lock the player is handed, the   *)
(* two pieces of React state and the calls of handleAiGenerate.            *)
ai == <<isAiUnlocked, isGeneratingAi, aiGenerationProgress, generation>>

(* What the handlers of the player leave alone: whether the audio element  *)
(* is still loading its metadata, and the generation.                      *)
aside == <<loading, isAiUnlocked, isGeneratingAi, aiGenerationProgress,
           generation>>

(* The live player as a whole. *)
player == <<timedLyrics, duration, aiImages, currentTime,
            lyricLines, currentBg, reveal,
            isPlaying, audio, animationFrameRef, probe,
            loading, isAiUnlocked, isGeneratingAi, aiGenerationProgress,
            generation>>

(* The export: the two pieces of React state, the calls of handleExport    *)
(* that were made, and the encoder shared by all of them.                  *)
export == <<isExporting, exportProgress, jobs, ffmpeg, FS>>

vars == <<timedLyrics, duration, currentTime, lyricLines, frame,
          aiImages, currentBg,
          isPlaying, audio, animationFrameRef, reveal, probe,
          isExporting, exportProgress, jobs, ffmpeg, FS,
          loading, isAiUnlocked, isGeneratingAi, aiGenerationProgress,
          generation>>

----------------------------------------------------------------------------
(* Bounds of the model *)

TicksPerFrame == 2

MaxLines == 3

MaxGrid == 2

MaxAssets == 2

MaxExports == 2

ExportFrames == 3

MaxGenerations == 2

(* Program constants *)

frameRate == 30

TickRate == frameRate * TicksPerFrame

Seconds(n) == n * TickRate

GridStep == 2 * TicksPerFrame

----------------------------------------------------------------------------
(* Values *)

null == <<>>

Some(x) == <<x>>

Line(text, startTime, endTime) ==
    [text |-> text, startTime |-> startTime, endTime |-> endTime]

IsWhitespace(c) == c \in {" ", "\t", "\n"}

RECURSIVE trimStart(_)
trimStart(s) ==
    IF s = <<>> THEN <<>>
    ELSE IF IsWhitespace(Head(s)) THEN trimStart(Tail(s))
    ELSE s

RECURSIVE trimEnd(_)
trimEnd(s) ==
    IF s = <<>> THEN <<>>
    ELSE IF IsWhitespace(s[Len(s)]) THEN trimEnd(SubSeq(s, 1, Len(s) - 1))
    ELSE s

trim(s) == trimEnd(trimStart(s))

(* `arr[i] || null` with i counted from 1; an index outside the array      *)
(* reads undefined, which `||` turns into null.                            *)
OrNull(arr, i) == IF i \in 1..Len(arr) THEN Some(arr[i]) ELSE null

(* `url || other` on strings: the empty string is falsy. *)
OrElse(url, other) == IF url = "" THEN other ELSE url

(* The cover image the player is handed (prop imageUrl). *)
imageUrl == "cover"

Min(S) == CHOOSE x \in S : \A y \in S : x <= y

Max(S) == CHOOSE x \in S : \A y \in S : x >= y

----------------------------------------------------------------------------
(* App.handleTimingComplete: a silent intro line is put in front of the    *)
(* lyrics when the first one starts later than 0.1 s.                      *)

handleTimingComplete(lyrics) ==
    IF Len(lyrics) = 0 THEN <<>>
    ELSE LET firstLyricStartTime == lyrics[1].startTime
         IN  IF firstLyricStartTime * 10 > TickRate
             THEN <<Line(<<>>, 0, firstLyricStartTime)>> \o lyrics
             ELSE lyrics

----------------------------------------------------------------------------
(* The live player's selection: the lyricLines memo.  Indices count from 1 *)
(* and 0 stands for the -1 of findIndex and of the backward scan.          *)

realLyricsMutNoFilter(lyrics) == lyrics

realLyrics(lyrics) == SelectSeq(lyrics, LAMBDA l : trim(l.text) # <<>>)

currentIndexMutClosedEnd(real, t) ==
    LET hits == {i \in 1..Len(real) :
                    t >= real[i].startTime /\ t <= real[i].endTime}
    IN  IF hits = {} THEN 0 ELSE Min(hits)

currentIndexMutStrictStart(real, t) ==
    LET hits == {i \in 1..Len(real) :
                    t > real[i].startTime /\ t < real[i].endTime}
    IN  IF hits = {} THEN 0 ELSE Min(hits)

currentIndex(real, t) ==
    LET hits == {i \in 1..Len(real) :
                    t >= real[i].startTime /\ t < real[i].endTime}
    IN  IF hits = {} THEN 0 ELSE Min(hits)

prevLyricIndexMutStrict(real, t) ==
    LET hits == {i \in 1..Len(real) : t > real[i].endTime}
    IN  IF hits = {} THEN 0 ELSE Max(hits)

prevLyricIndexMutForward(real, t) ==
    LET hits == {i \in 1..Len(real) : t >= real[i].endTime}
    IN  IF hits = {} THEN 0 ELSE Min(hits)

prevLyricIndex(real, t) ==
    LET hits == {i \in 1..Len(real) : t >= real[i].endTime}
    IN  IF hits = {} THEN 0 ELSE Max(hits)

Selection(prev, current, next) ==
    [prev |-> prev, current |-> current, next |-> next]

isBeforeFirstMutFlipped(real, t) == t > real[1].startTime

isBeforeFirst(real, t) == t < real[1].startTime

isAfterLast(real, t) == t >= real[Len(real)].endTime

afterLastSelectionMutVanish(real) == Selection(null, null, null)

afterLastSelection(real) == Selection(Some(real[Len(real)]), null, null)

lyricLinesAt(lyrics, t) ==
    LET real == realLyrics(lyrics)
    IN  IF Len(real) = 0 THEN Selection(null, null, null)
        ELSE
        LET idx     == currentIndex(real, t)
            prevIdx == prevLyricIndex(real, t)
        IN  IF isBeforeFirst(real, t)
                THEN Selection(null, null, Some(real[1]))
            ELSE IF isAfterLast(real, t)
                THEN afterLastSelection(real)
            ELSE IF idx # 0
                THEN Selection(OrNull(real, idx - 1), Some(real[idx]),
                               OrNull(real, idx + 1))
            ELSE IF prevIdx # 0
                THEN Selection(Some(real[prevIdx]), null,
                               OrNull(real, prevIdx + 1))
            ELSE Selection(null, null, null)

(* The memo: the selection together with the currentTime it was computed   *)
(* for (its dependency); nothing has been computed before the first render *)
Memo(sel, t) == [prev |-> sel.prev, current |-> sel.current, next |-> sel.next, at |-> t]

(* Live background (useMemo currentBg) at position t. *)
findIndex(images, t) ==
    LET hits == {k \in 1..Len(images) :
                    t >= images[k].startTime /\ t < images[k].endTime}
    IN  IF hits = {} THEN -1 ELSE CHOOSE k \in hits : \A j \in hits : k <= j

currentBgAt(images, t) ==
    IF Len(images) = 0 THEN [current |-> imageUrl, next |-> null, blend |-> 0]
    ELSE LET currentImageIndex == findIndex(images, t)
             current == IF currentImageIndex = -1 THEN images[1]
                        ELSE images[currentImageIndex]
         IN  [current |-> OrElse(current.url, imageUrl),
              next |-> null, blend |-> 0]

(* Before the first render no memo holds a value. *)
Unrendered == -Seconds(1)

NotRendered == Memo(Selection(null, null, null), Unrendered)

NoBackground == [current |-> "", next |-> null, blend |-> 0]

----------------------------------------------------------------------------
(* The export loop: frame clock, its own copy of the selection, and the    *)
(* reveal quotient that sizes the highlight clip.                          *)

totalFramesMutCeil == (duration * frameRate + TickRate - 1) \div TickRate

totalFrames == (duration * frameRate) \div TickRate

frameTimeOf(i) == (i * TickRate) \div frameRate

exportCurrentIndexMutNoLowerBound(real, frameTime) ==
    LET hits == {i \in 1..Len(real) : frameTime < real[i].endTime}
    IN  IF hits = {} THEN 0 ELSE Min(hits)

exportCurrentIndexMutClosedEnd(real, frameTime) ==
    LET hits == {i \in 1..Len(real) :
                    frameTime >= real[i].startTime
                    /\ frameTime <= real[i].endTime}
    IN  IF hits = {} THEN 0 ELSE Min(hits)

exportCurrentIndex(real, frameTime) ==
    LET hits == {i \in 1..Len(real) :
                    frameTime >= real[i].startTime
                    /\ frameTime < real[i].endTime}
    IN  IF hits = {} THEN 0 ELSE Min(hits)

exportPrevLyricIndexMutForward(real, frameTime) ==
    LET hits == {i \in 1..Len(real) : frameTime >= real[i].endTime}
    IN  IF hits = {} THEN 0 ELSE Min(hits)

exportPrevLyricIndex(real, frameTime) ==
    LET hits == {i \in 1..Len(real) : frameTime >= real[i].endTime}
    IN  IF hits = {} THEN 0 ELSE Max(hits)

currentLyricLines(lyrics, frameTime) ==
    LET real == SelectSeq(lyrics, LAMBDA l : trim(l.text) # <<>>)
    IN  IF Len(real) = 0 THEN Selection(null, null, null)
        ELSE
        LET idx       == exportCurrentIndex(real, frameTime)
            lastLyric == real[Len(real)]
            prevIdx   == exportPrevLyricIndex(real, frameTime)
        IN  IF frameTime < real[1].startTime
                THEN Selection(null, null, Some(real[1]))
            ELSE IF frameTime >= lastLyric.endTime
                THEN Selection(Some(lastLyric), null, null)
            ELSE IF idx # 0
                THEN Selection(OrNull(real, idx - 1), Some(real[idx]),
                               OrNull(real, idx + 1))
            ELSE IF prevIdx # 0
                THEN Selection(Some(real[prevIdx]), null,
                               OrNull(real, prevIdx + 1))
            ELSE Selection(null, null, null)

karaokeProgressMutRemaining(line, frameTime) ==
    [num |-> line.endTime - frameTime,
     den |-> line.endTime - line.startTime]

karaokeProgressMutDenominator(line, frameTime) ==
    [num |-> frameTime - line.startTime, den |-> line.endTime]

karaokeProgress(line, frameTime) ==
    [num |-> frameTime - line.startTime,
     den |-> line.endTime - line.startTime]

(* Background of the frame at frameTime: the url of the first generated    *)
(* image whose window holds frameTime, else of the first generated image,  *)
(* and the cover image when nothing was generated.                         *)
find(images, t) ==
    LET hits == {k \in 1..Len(images) :
                    t >= images[k].startTime /\ t < images[k].endTime}
    IN  IF hits = {} THEN null
        ELSE Some(images[CHOOSE k \in hits : \A j \in hits : k <= j])

currentExportBgUrlMutHoldLast(images, frameTime) ==
    IF Len(images) > 0
    THEN LET started == {k \in 1..Len(images) : frameTime >= images[k].startTime}
             found   == find(images, frameTime)
         IN  IF found # null THEN found[1].url
             ELSE IF started = {} THEN images[1].url
             ELSE images[CHOOSE k \in started : \A j \in started : k >= j].url
    ELSE imageUrl

currentExportBgUrl(images, frameTime) ==
    IF Len(images) > 0
    THEN LET found == find(images, frameTime)
         IN  OrElse(IF found # null THEN found[1].url ELSE "", images[1].url)
    ELSE imageUrl

NoFrame == [index |-> -1, frameTime |-> -1, lines |-> Selection(null, null, null),
            progress |-> null, bgUrl |-> ""]

RenderFrame(i) ==
    LET frameTime == frameTimeOf(i)
        lines     == currentLyricLines(timedLyrics, frameTime)
    IN  [index     |-> i,
         frameTime |-> frameTime,
         lines     |-> lines,
         progress  |-> IF lines.current # null
                       THEN Some(karaokeProgress(lines.current[1], frameTime))
                       ELSE null,
         bgUrl     |-> currentExportBgUrl(aiImages, frameTime)]

----------------------------------------------------------------------------
(* The live player.  The audio element holds its own position and paused   *)
(* flag; animationFrameRef tells whether the ref holds a handle, whether    *)
(* the callback of that handle is still pending, and how many callbacks    *)
(* are pending in all.  reveal is the state of the CSS animation of the    *)
(* mounted KaraokeLyric: the key it was mounted with, the ticks the        *)
(* animation has run and the ticks it lasts.                               *)

Audio(t, paused, ended) == [currentTime |-> t, paused |-> paused, ended |-> ended]

NoAnimationFrame == [current |-> FALSE, live |-> FALSE, pending |-> 0]

requestAnimationFrame(ref) ==
    [current |-> TRUE, live |-> TRUE, pending |-> ref.pending + 1]

cancelAnimationFrameMutKeepsCallback(ref) == [ref EXCEPT !.live = FALSE]

cancelAnimationFrame(ref) ==
    IF ref.current /\ ref.live
    THEN [ref EXCEPT !.live = FALSE, !.pending = ref.pending - 1]
    ELSE ref

NoReveal == [key |-> null, elapsed |-> 0, total |-> 0]

(* Reconciliation of the KaraokeLyric element: the same key keeps the      *)
(* element and its running animation, another key mounts a new element     *)
(* whose animation starts at 0, no current line unmounts it.               *)
KaraokeLyric(mounted, current) ==
    IF current = null THEN NoReveal
    ELSE IF mounted.key = Some(current[1].startTime) THEN mounted
    ELSE [key     |-> Some(current[1].startTime),
          elapsed |-> 0,
          total   |-> current[1].endTime - current[1].startTime]

(* useMemo with the dependencies [currentTime, timedLyrics]. *)
useMemoMutForwardScan(memo, lyrics, t) ==
    IF memo.at = t THEN memo
    ELSE IF t < memo.at /\ memo.at # Unrendered
         THEN [memo EXCEPT !.at = t]
    ELSE Memo(lyricLinesAt(lyrics, t), t)

useMemo(memo, lyrics, t) ==
    IF memo.at = t THEN memo ELSE Memo(lyricLinesAt(lyrics, t), t)

(* A render of the player with the position t. *)
Render(t) ==
    /\ lyricLines' = useMemo(lyricLines, timedLyrics, t)
    /\ currentBg' = currentBgAt(aiImages, t)
    /\ reveal' = KaraokeLyric(reveal, lyricLines'.current)

(* The effect on [isPlaying]: the cleanup of the previous run, then the    *)
(* body for the new value.                                                 *)
playingEffectMutNoCancel(ref, playing) ==
    IF playing THEN requestAnimationFrame(cancelAnimationFrame(ref))
    ELSE ref

playingEffect(ref, playing) ==
    LET cleaned == cancelAnimationFrame(ref)
    IN  IF playing THEN requestAnimationFrame(cleaned)
        ELSE cancelAnimationFrame(cleaned)

(* A call of handleExport: where it stands (pc), the frame it is at (i),   *)
(* how many frames it has drawn, the frames it has written, its calls of   *)
(* the encoder, whether it triggered the download, how many error          *)
(* messages it showed, the step that threw (err), the image of the         *)
(* preload that did not load and the progress values it has reported.      *)
NoJob ==
    [pc |-> "idle", i |-> 0, drawn |-> 0, written |-> <<>>, calls |-> <<>>,
     downloaded |-> FALSE, alerts |-> 0, err |-> "", unloaded |-> "",
     reported |-> <<>>]

Jobs == DOMAIN jobs

(* Nothing exported yet; at most n calls of handleExport will be made. *)
NoExportOf(n) ==
    /\ isExporting = FALSE
    /\ exportProgress = null
    /\ jobs = [j \in 1..n |-> NoJob]
    /\ ffmpeg = [loaded |-> FALSE, running |-> FALSE, readable |-> FALSE]
    /\ FS = {}

NoExport == NoExportOf(MaxExports)

(* A call of handleAiGenerate: where the last call stands (pc), how many   *)
(* error messages the calls have shown, the stanza the image loop is at    *)
(* (i) and the images it has collected.                                    *)
NoGeneration ==
    [pc |-> "idle", alerts |-> 0, i |-> 0, generatedImages |-> <<>>]

(* No background is being generated. *)
NotGenerating ==
    /\ isGeneratingAi = FALSE
    /\ aiGenerationProgress = null
    /\ generation = NoGeneration

(* The audio element has its metadata, and the AI feature is unlocked      *)
(* exactly if backgrounds were generated.                                  *)
Quiet ==
    /\ loading = FALSE
    /\ isAiUnlocked = (aiImages # <<>>)
    /\ NotGenerating

(* The player before it is used: paused at 0, nothing pending. *)
Standing ==
    /\ isPlaying = FALSE
    /\ audio = Audio(0, TRUE, FALSE)
    /\ animationFrameRef = NoAnimationFrame
    /\ reveal = NoReveal
    /\ probe = <<>>
    /\ NoExport
    /\ Quiet

----------------------------------------------------------------------------
(* Inputs of the sampler: every lyric list of at most MaxLines lines over  *)
(* a grid of times, ordered by start time with startTime <= endTime        *)
(* (windows may overlap), the k-th line reading the k-th letter, each list *)
(* also with one of its lines left blank; and two lists timed in seconds.  *)

GridTimes == {k * GridStep : k \in 0..MaxGrid}

Letters == <<"A", "B", "C", "D", "E", "F">>

GridWindows == {w \in GridTimes \X GridTimes : w[1] <= w[2]}

OrderedByStart(ws) == \A k \in 1..(Len(ws) - 1) : ws[k][1] <= ws[k + 1][1]

GridTimings ==
    UNION {{ws \in [1..n -> GridWindows] : OrderedByStart(ws)} : n \in 0..MaxLines}

LyricsOf(ws, blank) ==
    [k \in 1..Len(ws) |->
        Line(IF k = blank THEN <<" ">> ELSE <<Letters[k]>>, ws[k][1], ws[k][2])]

GridLyrics == {LyricsOf(ws, blank) : ws \in GridTimings, blank \in 0..MaxLines}

GridDuration == (MaxGrid + 1) * GridStep

LineA == Line(<<"A">>, Seconds(5), Seconds(8))

LineHello == Line(<<"H", "e", "l", "l", "o">>, Seconds(10), Seconds(12))

LineShort == Line(<<"A">>, Seconds(1), Seconds(2))

SamplerInputs ==
    {[lyrics |-> q, duration |-> GridDuration] : q \in GridLyrics}
    \cup {[lyrics |-> <<LineA>>, duration |-> Seconds(9)],
          [lyrics |-> <<LineHello>>, duration |-> Seconds(13)],
          [lyrics |-> <<LineShort>>, duration |-> Seconds(2)],
          [lyrics |-> <<LineShort>>, duration |-> Seconds(2) + 1]}

----------------------------------------------------------------------------
(* Sampler specification: the player is handed a lyric list and stands at  *)
(* a position t; a render computes the memo for t, and the export loop     *)
(* body renders the frame whose frame time is t.                           *)

SamplerInit ==
    \E inp \in SamplerInputs :
        /\ timedLyrics = handleTimingComplete(inp.lyrics)
        /\ duration = inp.duration
        /\ currentTime \in 0..inp.duration
        /\ lyricLines = NotRendered
        /\ frame = NoFrame
        /\ aiImages = <<>>
        /\ currentBg = NoBackground
        /\ Standing

RenderLive ==
    /\ lyricLines.at # currentTime
    /\ lyricLines' = Memo(lyricLinesAt(timedLyrics, currentTime), currentTime)
    /\ currentBg' = currentBgAt(aiImages, currentTime)
    /\ UNCHANGED <<timedLyrics, duration, currentTime, frame, aiImages>>
    /\ UNCHANGED <<clock, reveal, probe, export, aside>>

SampleFrame ==
    /\ lyricLines.at = currentTime
    /\ frame = NoFrame
    /\ \E i \in 0..(totalFrames - 1) :
          /\ frameTimeOf(i) = currentTime
          /\ frame' = RenderFrame(i)
    /\ UNCHANGED <<timedLyrics, duration, currentTime, lyricLines,
                   aiImages, currentBg>>
    /\ UNCHANGED <<clock, reveal, probe, export, aside>>

SamplerNext == RenderLive \/ SampleFrame

SpecSampler == SamplerInit /\ [][SamplerNext]_vars

----------------------------------------------------------------------------
(* Background specification: the player holds a list of generated images   *)
(* and stands at a position t, which for the selection function may lie    *)
(* before 0 or past the duration; the same two steps render it.            *)

Urls == <<"ai1", "ai2", "ai3", "ai4">>

Image(url, startTime, endTime) ==
    [url |-> url, startTime |-> startTime, endTime |-> endTime]

GridImages ==
    UNION {{[k \in 1..n |-> Image(Urls[k], ws[k][1], ws[k][2])] :
               ws \in [1..n -> GridWindows]} : n \in 0..MaxAssets}

BackgroundInit ==
    /\ timedLyrics = <<>>
    /\ duration = GridDuration
    /\ aiImages \in GridImages
    /\ currentTime \in (-GridStep)..(GridDuration + GridStep)
    /\ lyricLines = NotRendered
    /\ frame = NoFrame
    /\ currentBg = NoBackground
    /\ Standing

SpecBackground == BackgroundInit /\ [][SamplerNext]_vars

----------------------------------------------------------------------------
(* Player specification: the mounted player with its play/pause button,    *)
(* its timeline slider, the audio element and the refresh callback.  The   *)
(* songs last a few ticks so that every position can be visited.           *)

LineAt(k, from, to) == Line(<<Letters[k]>>, from * GridStep, to * GridStep)

PlayerDuration == 3 * GridStep

(* Two songs: two lines back to back and no generated image; two lines     *)
(* with a gap between them and one generated image for each.               *)
PlayerInputs ==
    {[lyrics |-> <<LineAt(1, 1, 2), LineAt(2, 2, 3)>>,
      images |-> <<>>],
     [lyrics |-> <<LineAt(1, 0, 1), LineAt(2, 2, 3)>>,
      images |-> <<Image(Urls[1], 0, GridStep),
                   Image(Urls[2], 2 * GridStep, 3 * GridStep)>>]}

Init ==
    /\ \E inp \in PlayerInputs :
          /\ timedLyrics = handleTimingComplete(inp.lyrics)
          /\ aiImages = inp.images
    /\ duration = PlayerDuration
    /\ currentTime = 0
    /\ lyricLines = Memo(lyricLinesAt(timedLyrics, 0), 0)
    /\ currentBg = currentBgAt(aiImages, 0)
    /\ reveal = KaraokeLyric(NoReveal, lyricLines.current)
    /\ isPlaying = FALSE
    /\ audio = Audio(0, TRUE, FALSE)
    /\ animationFrameRef = NoAnimationFrame
    /\ frame = NoFrame
    /\ probe = <<>>
    /\ NoExport
    /\ Quiet

(* The observer's note, once taken, tells whether a later position has     *)
(* been rendered since.                                                    *)
Observed ==
    probe' = IF probe # <<>> /\ currentTime' > probe[1].at
             THEN <<[probe[1] EXCEPT !.later = TRUE]>>
             ELSE probe

pause(a) == [a EXCEPT !.paused = TRUE]

play(a) == [a EXCEPT !.paused = FALSE]

(* audio.currentTime >= duration - 0.1 *)
nearEndMutAtEnd(a, total) == a.currentTime >= total

nearEnd(a, total) == a.currentTime * 10 >= total * 10 - TickRate

handlePlayPause ==
    /\ audio' = IF isPlaying THEN pause(audio)
                ELSE IF nearEnd(audio, duration)
                     THEN play([audio EXCEPT !.currentTime = 0])
                ELSE play(audio)
    /\ isPlaying' = ~isPlaying
    /\ Render(currentTime)
    /\ animationFrameRef' = playingEffect(animationFrameRef, isPlaying')
    /\ UNCHANGED <<export, props, aside, currentTime, frame>>
    /\ Observed

(* The slider is moved to the value time. *)
seekToMutAudioOnly(time) ==
    /\ audio' = [audio EXCEPT !.currentTime = time]
    /\ currentTime' = currentTime
    /\ Render(currentTime)
    /\ UNCHANGED <<export, props, aside, isPlaying, animationFrameRef, frame>>
    /\ Observed

seekTo(time) ==
    /\ audio' = [audio EXCEPT !.currentTime = time]
    /\ currentTime' = time
    /\ Render(time)
    /\ UNCHANGED <<export, props, aside, isPlaying, animationFrameRef, frame>>
    /\ Observed

handleTimelineChange == \E time \in 0..duration : seekTo(time)

(* The pending refresh callback runs: it samples the audio position and    *)
(* asks for the next callback.                                             *)
animate ==
    /\ animationFrameRef.pending > 0
    /\ \E ofRef \in BOOLEAN :
          /\ ofRef => animationFrameRef.live
          /\ ~ofRef => animationFrameRef.pending >
                           (IF animationFrameRef.live THEN 1 ELSE 0)
          /\ animationFrameRef' =
                requestAnimationFrame(
                    [animationFrameRef EXCEPT
                        !.live = IF ofRef THEN FALSE ELSE @,
                        !.pending = @ - 1])
    /\ currentTime' = audio.currentTime
    /\ Render(audio.currentTime)
    /\ UNCHANGED <<export, props, aside, isPlaying, audio, frame>>
    /\ Observed

(* The length of the audio file the element plays. *)
mediaDuration == PlayerDuration

(* The audio element moves on: it does once it has its metadata and is not *)
(* paused.                                                                 *)
advances(a) == ~a.paused /\ ~loading

(* One tick of time passes: a playing audio element moves on and ends at   *)
(* the end of the song, a running reveal animation moves on until it is    *)
(* complete.                                                               *)
TimePasses ==
    /\ \/ advances(audio)
       \/ isPlaying /\ reveal.key # null /\ reveal.elapsed < reveal.total
    /\ audio' = IF ~advances(audio) THEN audio
                ELSE IF audio.currentTime + 1 >= mediaDuration
                     THEN Audio(mediaDuration, TRUE, TRUE)
                ELSE [audio EXCEPT !.currentTime = @ + 1]
    /\ reveal' = IF isPlaying /\ reveal.key # null
                 THEN [reveal EXCEPT !.elapsed = Min({@ + 1, reveal.total})]
                 ELSE reveal
    /\ UNCHANGED <<export, props, aside, currentTime, lyricLines, currentBg,
                   isPlaying, animationFrameRef, frame>>
    /\ Observed

(* The 'ended' event of the audio element reaches its listener; the       *)
(* render that follows runs the effect on [isPlaying].                     *)
endedHandlerMutKeepsPlaying ==
    /\ audio.ended
    /\ audio' = [audio EXCEPT !.ended = FALSE]
    /\ isPlaying' = isPlaying
    /\ currentTime' = duration
    /\ Render(duration)
    /\ animationFrameRef' = animationFrameRef
    /\ UNCHANGED <<export, props, aside, frame>>
    /\ Observed

endedHandler ==
    /\ audio.ended
    /\ audio' = [audio EXCEPT !.ended = FALSE]
    /\ isPlaying' = FALSE
    /\ currentTime' = duration
    /\ Render(duration)
    /\ animationFrameRef' = IF isPlaying
                            THEN playingEffect(animationFrameRef, FALSE)
                            ELSE animationFrameRef
    /\ UNCHANGED <<export, props, aside, frame>>
    /\ Observed

Next ==
    \/ handlePlayPause
    \/ handleTimelineChange
    \/ animate
    \/ TimePasses
    \/ endedHandler

Spec == Init /\ [][Next]_vars

----------------------------------------------------------------------------
(* Clock specification: the player from its mount, while the audio        *)
(* element still loads its metadata, and handed a duration that the        *)
(* parent may replace: App sets timedLyrics and audioDuration whenever a    *)
(* lyric import completes, and an import started for an earlier choice of  *)
(* the audio file reports the length of that file.                         *)

(* The durations the parent hands over: the length of the audio file and   *)
(* the length of a shorter file chosen before it.                          *)
Durations == {PlayerDuration - GridStep, PlayerDuration}

ClockInit ==
    /\ \E inp \in PlayerInputs :
          /\ timedLyrics = handleTimingComplete(inp.lyrics)
          /\ aiImages = inp.images
    /\ duration \in Durations
    /\ currentTime = 0
    /\ lyricLines = Memo(lyricLinesAt(timedLyrics, 0), 0)
    /\ currentBg = currentBgAt(aiImages, 0)
    /\ reveal = KaraokeLyric(NoReveal, lyricLines.current)
    /\ isPlaying = FALSE
    /\ audio = Audio(0, TRUE, FALSE)
    /\ animationFrameRef = NoAnimationFrame
    /\ frame = NoFrame
    /\ probe = <<>>
    /\ NoExport
    /\ loading = TRUE
    /\ isAiUnlocked = (aiImages # <<>>)
    /\ NotGenerating

(* The audio element has loaded its metadata: setCurrentTime(0). *)
onLoadedMetadata ==
    /\ loading
    /\ loading' = FALSE
    /\ currentTime' = 0
    /\ Render(0)
    /\ UNCHANGED <<export, props, ai, clock, frame>>
    /\ Observed

(* The cleanup of the effect on [duration]: the listener is removed and    *)
(* the callback the ref names is cancelled.                                *)
durationCleanup(ref) == cancelAnimationFrame(ref)

(* The parent hands over another duration: the player renders again, the   *)
(* effect on [duration] is cleaned up and run for the new value, and the   *)
(* effect on [isPlaying] is not run.                                       *)
durationChanges ==
    \E d \in Durations \ {duration} :
        /\ duration' = d
        /\ Render(currentTime)
        /\ animationFrameRef' = durationCleanup(animationFrameRef)
        /\ UNCHANGED <<export, aside, timedLyrics, aiImages, currentTime,
                       isPlaying, audio, frame>>
        /\ Observed

ClockNext == Next \/ onLoadedMetadata \/ durationChanges

SpecClock == ClockInit /\ [][ClockNext]_vars

----------------------------------------------------------------------------
(* Generation specification: the player with no generated background,     *)
(* whose AI button is used while it plays.  handleAiGenerate awaits        *)
(* generateVisualsForLyrics, which awaits the prompts and then one image   *)
(* for each stanza of two lines; each await ends a step.                   *)

END == <<"E", "N", "D">>

(* timedLyrics.filter(l => l.text && l.text.trim() !== '' && l.text !== 'END') *)
toProcess(l) == l.text # <<>> /\ trim(l.text) # <<>> /\ l.text # END

lyricsToProcess(lyrics) == SelectSeq(lyrics, toProcess)

(* The windows of the stanzas: lines 2k - 1 and 2k, the last stanza may    *)
(* hold one line.                                                          *)
stanzas(lyrics) ==
    LET ls == lyricsToProcess(lyrics)
    IN  [k \in 1..((Len(ls) + 1) \div 2) |->
            [startTime |-> ls[2 * k - 1].startTime,
             endTime   |-> ls[Min({2 * k, Len(ls)})].endTime]]

(* Math.round of a quotient that is not negative. *)
round(num, den) == (2 * num + den) \div (2 * den)

(* 20 + Math.round((i / totalImages) * 80) *)
imageProgress(i, totalImages) == 20 + round(i * 80, totalImages)

(* disabled={!isAiUnlocked || isGeneratingAi || aiImages.length > 0} *)
aiButtonDisabled == ~isAiUnlocked \/ isGeneratingAi \/ aiImages # <<>>

(* finally: the generating flag and the progress are cleared. *)
generationFinally ==
    /\ isGeneratingAi' = FALSE
    /\ aiGenerationProgress' = null

(* catch (error): the error is logged and one alert is shown. *)
generationCatchMutKeepsFlag ==
    /\ generation' = [generation EXCEPT !.pc = "failed", !.alerts = @ + 1]
    /\ isGeneratingAi' = isGeneratingAi
    /\ aiGenerationProgress' = null
    /\ UNCHANGED <<aiImages, currentBg>>

generationCatch ==
    /\ generation' = [generation EXCEPT !.pc = "failed", !.alerts = @ + 1]
    /\ generationFinally
    /\ UNCHANGED <<aiImages, currentBg>>

(* setAiImages(images) and the render that follows. *)
setAiImages(images) ==
    /\ aiImages' = images
    /\ currentBg' = currentBgAt(images, currentTime)
    /\ generation' = [generation EXCEPT !.pc = "done", !.generatedImages = images]
    /\ generationFinally

(* What the steps of the generation leave alone. *)
notGeneration ==
    <<export, clock, timedLyrics, duration, currentTime, lyricLines, reveal,
      frame, probe, loading, isAiUnlocked>>

(* The click on the AI button.  With no line to process the service        *)
(* returns at once and the call completes with an empty list.              *)
handleAiGenerate ==
    /\ ~aiButtonDisabled
    /\ generation.alerts < MaxGenerations
    /\ IF ~isAiUnlocked
       THEN /\ generation' = [generation EXCEPT !.alerts = @ + 1]
            /\ UNCHANGED <<isGeneratingAi, aiGenerationProgress, aiImages,
                           currentBg>>
       ELSE LET call == [generation EXCEPT !.i = 0, !.generatedImages = <<>>]
            IN  IF lyricsToProcess(timedLyrics) = <<>>
                THEN /\ aiImages' = <<>>
                     /\ currentBg' = currentBgAt(<<>>, currentTime)
                     /\ generation' = [call EXCEPT !.pc = "done"]
                     /\ generationFinally
                ELSE /\ isGeneratingAi' = TRUE
                     /\ aiGenerationProgress' = Some(10)
                     /\ generation' = [call EXCEPT !.pc = "prompts"]
                     /\ UNCHANGED <<aiImages, currentBg>>
    /\ UNCHANGED notGeneration

(* await ai.models.generateContent resolves: the answer parses and the     *)
(* image loop starts, or it does not parse and the service throws.         *)
promptsResolve ==
    /\ generation.pc = "prompts"
    /\ \E parsed \in BOOLEAN :
          IF parsed
          THEN /\ generation' = [generation EXCEPT !.pc = "image", !.i = 0]
               /\ aiGenerationProgress' =
                     Some(imageProgress(0, Len(stanzas(timedLyrics))))
               /\ UNCHANGED <<isGeneratingAi, aiImages, currentBg>>
          ELSE generationCatch
    /\ UNCHANGED notGeneration

(* await ai.models.generateImages resolves for stanza i, with an image or  *)
(* with none; the loop goes on, or the images are returned.                *)
imageResolves ==
    /\ generation.pc = "image"
    /\ \E got \in BOOLEAN :
          LET task == stanzas(timedLyrics)[generation.i + 1]
              images == IF got
                        THEN Append(generation.generatedImages,
                                    Image(Urls[generation.i + 1],
                                          task.startTime, task.endTime))
                        ELSE generation.generatedImages
              totalImages == Len(stanzas(timedLyrics))
          IN  IF generation.i + 1 < totalImages
              THEN /\ generation' = [generation EXCEPT !.i = @ + 1,
                                                       !.generatedImages = images]
                   /\ aiGenerationProgress' =
                         Some(imageProgress(generation.i + 1, totalImages))
                   /\ UNCHANGED <<isGeneratingAi, aiImages, currentBg>>
              ELSE setAiImages(images)
    /\ UNCHANGED notGeneration

(* The awaited request of the service rejects. *)
generationRejects ==
    /\ generation.pc \in {"prompts", "image"}
    /\ generationCatch
    /\ UNCHANGED notGeneration

(* Two songs: three lines, which make two stanzas, and no line at all. *)
GenerateInputs ==
    {<<LineAt(1, 0, 1), LineAt(2, 1, 2), LineAt(3, 2, 3)>>, <<>>}

GenerateInit ==
    /\ \E lyrics \in GenerateInputs : timedLyrics = handleTimingComplete(lyrics)
    /\ aiImages = <<>>
    /\ duration = PlayerDuration
    /\ currentTime = 0
    /\ lyricLines = Memo(lyricLinesAt(timedLyrics, 0), 0)
    /\ currentBg = currentBgAt(aiImages, 0)
    /\ reveal = KaraokeLyric(NoReveal, lyricLines.current)
    /\ isPlaying = FALSE
    /\ audio = Audio(0, TRUE, FALSE)
    /\ animationFrameRef = NoAnimationFrame
    /\ frame = NoFrame
    /\ probe = <<>>
    /\ NoExport
    /\ loading = FALSE
    /\ isAiUnlocked \in BOOLEAN
    /\ NotGenerating

GenerateNext ==
    \/ handleAiGenerate
    \/ promptsResolve
    \/ imageResolves
    \/ generationRejects
    \/ Next

SpecGenerate == GenerateInit /\ [][GenerateNext]_vars

----------------------------------------------------------------------------
(* Query specification: the player as above, observed.  At one moment of   *)
(* the run the observer notes the position and what the player derived     *)
(* for it; the run then goes on through any plays, seeks and refreshes.    *)

Observation ==
    [at      |-> currentTime,
     lines   |-> Selection(lyricLines.prev, lyricLines.current, lyricLines.next),
     bg      |-> currentBg.current,
     later   |-> FALSE]

Capture ==
    /\ probe = <<>>
    /\ probe' = <<Observation>>
    /\ UNCHANGED <<export, props, currentTime, rendered, clock, frame, aside>>

QueriesNext == Capture \/ Next

SpecQueries == Init /\ [][QueriesNext]_vars

----------------------------------------------------------------------------
(* Export specification: the mounted player, standing, whose export        *)
(* button is used.  handleExport is an async function: each of its awaits  *)
(* ends a step, and what follows the await up to the next one (the catch   *)
(* and finally blocks included) is the next step of that call.  The        *)
(* encoder is shared by the calls: it is loaded once, runs one command at  *)
(* a time, and its file system maps a name to its content, here to the     *)
(* call that wrote it.  Reading or unlinking a name that is not there      *)
(* throws.                                                                 *)

ExportDuration == ExportFrames * TicksPerFrame

(* A song shorter than one frame. *)
ShortDuration == TicksPerFrame - 1

InputMp3 == <<"input.mp3", 0>>

OutputMp4 == <<"output.mp4", 0>>

FrameJpg(i) == <<"frame.jpg", i>>

exists(fs, name) == \E f \in fs : f.name = name

unlink(fs, name) == {f \in fs : f.name # name}

writeFile(fs, name, j) == unlink(fs, name) \cup {[name |-> name, by |-> j]}

(* The unlinks of the cleanup, in order; the first name that is missing    *)
(* throws and leaves the rest in place.                                    *)
cleanupNames ==
    [k \in 1..(totalFrames + 2) |->
        IF k <= totalFrames THEN FrameJpg(k - 1)
        ELSE IF k = totalFrames + 1 THEN InputMp3
        ELSE OutputMp4]

RECURSIVE unlinkAll(_, _)
unlinkAll(fs, names) ==
    IF names = <<>> THEN [fs |-> fs, thrown |-> FALSE, tried |-> 0]
    ELSE IF ~exists(fs, Head(names))
         THEN [fs |-> fs, thrown |-> TRUE, tried |-> 1]
    ELSE LET rest == unlinkAll(unlink(fs, Head(names)), Tail(names))
         IN  [rest EXCEPT !.tried = @ + 1]

(* The step of the frame loop (i++). *)
nextFrameMutSkip(i) == i + 2

nextFrame(i) == i + 1

(* 10 + Math.floor((i / totalFrames) * 80) *)
frameProgressMutPercent(i) == (i * 100) \div totalFrames

frameProgress(i) == 10 + (i * 80) \div totalFrames

(* catch (err): one alert; the call is over. *)
catch(job, err) ==
    [job EXCEPT !.pc = "failed", !.alerts = @ + 1, !.err = err]

(* A call of the encoder: the operation and the file it names, if any. *)
Call(op, name) == [op |-> op, name |-> name]

load == Call("load", <<>>)

run == Call("run", <<>>)

(* A progress value a job passes to setExportProgress. *)
reports(job, progress) == [job EXCEPT !.reported = Append(@, progress)]

(* A call of the encoder by a job. *)
called(job, call) == [job EXCEPT !.calls = Append(@, call)]

(* The unlinks of the cleanup that were called, the one that threw being   *)
(* the last.                                                               *)
unlinked(job, tried) ==
    [job EXCEPT !.calls = @ \o [k \in 1..tried |-> Call("unlink", cleanupNames[k])]]

(* finally: the exporting flag and the progress are cleared. *)
finally ==
    /\ isExporting' = FALSE
    /\ exportProgress' = null

(* The click on the export button.  The call starts whatever the state of  *)
(* an earlier call is; with the encoder loaded it goes on to fetch the     *)
(* audio, else it waits for the load.                                      *)
handleExportMutAlwaysLoads ==
    \E j \in Jobs :
        /\ jobs[j].pc = "idle"
        /\ \A k \in Jobs : k < j => jobs[k].pc # "idle"
        /\ isExporting' = TRUE
        /\ exportProgress' = Some(0)
        /\ jobs' = [jobs EXCEPT ![j] =
                       called(reports([@ EXCEPT !.pc = "load"], 0), load)]
        /\ UNCHANGED <<player, frame, ffmpeg, FS>>

handleExport ==
    \E j \in Jobs :
        /\ jobs[j].pc = "idle"
        /\ \A k \in Jobs : k < j => jobs[k].pc # "idle"
        /\ isExporting' = TRUE
        /\ IF ffmpeg.loaded
           THEN /\ exportProgress' = Some(5)
                /\ jobs' = [jobs EXCEPT ![j] =
                               reports(reports([@ EXCEPT !.pc = "audio"], 0), 5)]
           ELSE /\ exportProgress' = Some(0)
                /\ jobs' = [jobs EXCEPT ![j] =
                               called(reports([@ EXCEPT !.pc = "load"], 0), load)]
        /\ UNCHANGED <<player, frame, ffmpeg, FS>>

(* await ffmpeg.load() resolves. *)
loadResolves ==
    \E j \in Jobs :
        /\ jobs[j].pc = "load"
        /\ ffmpeg' = [ffmpeg EXCEPT !.loaded = TRUE]
        /\ exportProgress' = Some(5)
        /\ jobs' = [jobs EXCEPT ![j] = reports([@ EXCEPT !.pc = "audio"], 5)]
        /\ UNCHANGED <<player, frame, isExporting, FS>>

(* await fetchFile(audioUrl) resolves: input.mp3 is written, the canvas    *)
(* gives its context and the preload of the images starts.                 *)
audioResolves ==
    \E j \in Jobs :
        /\ jobs[j].pc = "audio"
        /\ FS' = writeFile(FS, InputMp3, j)
        /\ jobs' = [jobs EXCEPT ![j] = called([@ EXCEPT !.pc = "preload"],
                                              Call("writeFile", InputMp3))]
        /\ UNCHANGED <<player, frame, isExporting, exportProgress, ffmpeg>>

(* As above, but canvas.getContext gives null. *)
contextMissing ==
    \E j \in Jobs :
        /\ jobs[j].pc = "audio"
        /\ FS' = writeFile(FS, InputMp3, j)
        /\ jobs' = [jobs EXCEPT ![j] = catch(called(@, Call("writeFile", InputMp3)),
                                                 "context")]
        /\ finally
        /\ UNCHANGED <<player, frame, ffmpeg>>

(* The body of the frame loop for frame i up to its await: the progress    *)
(* is reported and the frame is drawn.                                     *)
drawFrame(j, job, i) ==
    /\ exportProgress' = Some(frameProgress(i))
    /\ frame' = RenderFrame(i)
    /\ jobs' = [jobs EXCEPT ![j] =
                   reports([job EXCEPT !.pc = "frame", !.i = i, !.drawn = @ + 1],
                           frameProgress(i))]

(* What the command reads: input.mp3 and the first frame. *)
readable(fs) == exists(fs, InputMp3) /\ exists(fs, FrameJpg(0))

(* After the loop: ffmpeg.run is called; it throws at once when a command  *)
(* is running.                                                             *)
startRun(j, job, fs) ==
    IF ffmpeg.running
    THEN /\ jobs' = [jobs EXCEPT ![j] = catch(called(reports(job, 90), run), "run")]
         /\ finally
         /\ UNCHANGED <<frame, ffmpeg>>
    ELSE /\ exportProgress' = Some(90)
         /\ ffmpeg' = [ffmpeg EXCEPT !.running = TRUE, !.readable = readable(fs)]
         /\ jobs' = [jobs EXCEPT ![j] =
                        called(reports([job EXCEPT !.pc = "run"], 90), run)]
         /\ UNCHANGED <<frame, isExporting>>

(* [imageUrl, ...aiImages.map(i => i.url)] *)
allImageUrls == {imageUrl} \cup {aiImages[k].url : k \in 1..Len(aiImages)}

(* Promise.all resolves when no load was rejected ("" for none). *)
PromiseAllMutCoverOnly(rejected) == rejected # imageUrl

PromiseAll(rejected) == rejected = ""

(* await Promise.all(...) of the preload settles: every image has loaded   *)
(* and the loop starts, or the load of one image failed.                   *)
preloadSettles ==
    \E j \in Jobs, rejected \in allImageUrls \cup {""} :
        /\ jobs[j].pc = "preload"
        /\ LET job == [jobs[j] EXCEPT !.unloaded = rejected]
           IN  IF PromiseAll(rejected)
               THEN IF 0 < totalFrames
                    THEN drawFrame(j, job, 0) /\ UNCHANGED <<isExporting, ffmpeg>>
                    ELSE startRun(j, job, FS)
               ELSE /\ jobs' = [jobs EXCEPT ![j] = catch(job, "preload")]
                    /\ finally
                    /\ UNCHANGED <<frame, ffmpeg>>
        /\ UNCHANGED <<player, FS>>

(* await fetchFile(frameData) resolves: frame i is written and the loop    *)
(* goes on with frame i + 1, or ends.                                      *)
frameResolves ==
    \E j \in Jobs :
        /\ jobs[j].pc = "frame"
        /\ FS' = writeFile(FS, FrameJpg(jobs[j].i), j)
        /\ LET wrote == called([jobs[j] EXCEPT !.written = Append(@, jobs[j].i)],
                               Call("writeFile", FrameJpg(jobs[j].i)))
           IN  IF nextFrame(jobs[j].i) < totalFrames
               THEN /\ drawFrame(j, wrote, nextFrame(jobs[j].i))
                    /\ UNCHANGED <<isExporting, ffmpeg>>
               ELSE startRun(j, wrote, FS')
        /\ UNCHANGED player

(* await ffmpeg.run(...) resolves.  The encoder has written output.mp4, or *)
(* has not (it cannot unless input.mp3 and the first frame are there from  *)
(* the start of the command to its end).  The output is read, the download *)
(* is triggered and the files are unlinked; a missing file throws.         *)
runResolves ==
    \E j \in Jobs, made \in BOOLEAN :
        /\ jobs[j].pc = "run"
        /\ made => ffmpeg.readable /\ readable(FS)
        /\ ffmpeg' = [ffmpeg EXCEPT !.running = FALSE, !.readable = FALSE]
        /\ LET encoded == IF made THEN writeFile(FS, OutputMp4, j) ELSE FS
               cleaned == unlinkAll(encoded, cleanupNames)
               read    == called(reports(jobs[j], 99), Call("readFile", OutputMp4))
               clicked == unlinked([read EXCEPT !.downloaded = TRUE],
                                   cleaned.tried)
           IN  IF ~exists(encoded, OutputMp4)
               THEN /\ FS' = encoded
                    /\ jobs' = [jobs EXCEPT ![j] = catch(read, "readFile")]
               ELSE /\ FS' = cleaned.fs
                    /\ jobs' = [jobs EXCEPT ![j] =
                                   IF cleaned.thrown
                                   THEN catch(clicked, "unlink")
                                   ELSE [clicked EXCEPT !.pc = "done"]]
        /\ finally
        /\ UNCHANGED <<player, frame>>

(* The awaited promise rejects (the load, the fetch of the audio, the      *)
(* fetch of a frame, the run).                                             *)
rejects ==
    \E j \in Jobs :
        /\ jobs[j].pc \in {"load", "audio", "frame", "run"}
        /\ ffmpeg' = IF jobs[j].pc = "run"
                     THEN [ffmpeg EXCEPT !.running = FALSE, !.readable = FALSE]
                     ELSE ffmpeg
        /\ jobs' = [jobs EXCEPT ![j] = catch(@, jobs[j].pc)]
        /\ finally
        /\ UNCHANGED <<player, frame, FS>>

ExportInitOf(n) ==
    /\ \E inp \in PlayerInputs :
          /\ inp.images # <<>>
          /\ timedLyrics = handleTimingComplete(inp.lyrics)
          /\ aiImages = inp.images
    /\ duration \in {ShortDuration, ExportDuration}
    /\ currentTime = 0
    /\ lyricLines = Memo(lyricLinesAt(timedLyrics, 0), 0)
    /\ currentBg = currentBgAt(aiImages, 0)
    /\ reveal = KaraokeLyric(NoReveal, lyricLines.current)
    /\ isPlaying = FALSE
    /\ audio = Audio(0, TRUE, FALSE)
    /\ animationFrameRef = NoAnimationFrame
    /\ frame = NoFrame
    /\ probe = <<>>
    /\ NoExportOf(n)
    /\ Quiet

ExportInit == ExportInitOf(MaxExports)

ExportNext ==
    \/ handleExport
    \/ loadResolves
    \/ audioResolves
    \/ contextMissing
    \/ preloadSettles
    \/ frameResolves
    \/ runResolves
    \/ rejects

SpecExport == ExportInit /\ [][ExportNext]_vars

(* The same with one more call of handleExport. *)
ExportManyInit == ExportInitOf(MaxExports + 1)

SpecExportMany == ExportManyInit /\ [][ExportNext]_vars

----------------------------------------------------------------------------
(* Vocabulary of the properties.  A real line is a line whose text has a   *)
(* character that is not white space; Real is the list of real lines the   *)
(* player was handed, in order.                                            *)

HasVisibleText(l) == \E k \in 1..Len(l.text) : ~IsWhitespace(l.text[k])

Real == SelectSeq(timedLyrics, HasVisibleText)

NumReal == Len(Real)

At(k) == IF k \in 1..NumReal THEN <<Real[k]>> ELSE <<>>

Contains(l, t) == l.startTime <= t /\ t < l.endTime

NonOverlapping == \A k \in 1..(NumReal - 1) : Real[k].endTime <= Real[k + 1].startTime

FrameRendered == frame # NoFrame

LiveRendered == lyricLines.at = currentTime

Shown == Selection(lyricLines.prev, lyricLines.current, lyricLines.next)

(* Quotients are compared by cross multiplication, denominators positive.  *)
QuotientIs(q, num, den) == q.den > 0 /\ q.num * den = num * q.den

InUnitInterval(q) == q.den > 0 /\ 0 <= q.num /\ q.num <= q.den

Clamp01(num, den) ==
    IF num < 0 THEN [num |-> 0, den |-> 1]
    ELSE IF num > den THEN [num |-> 1, den |-> 1]
    ELSE [num |-> num, den |-> den]

----------------------------------------------------------------------------
(* C1: the previous/current/next triple the live player derives at         *)
(* currentTime = t is the triple the export loop derived for the frame     *)
(* whose frameTime is t.                                                   *)
C1_LiveMatchesExport ==
    (FrameRendered /\ LiveRendered /\ frame.frameTime = lyricLines.at) =>
        Shown = frame.lines

(* A frame rendered exactly at the end of a line that is followed by a gap *)
(* and a further line.                                                     *)
C1_Witness ==
    /\ FrameRendered /\ LiveRendered /\ frame.frameTime = lyricLines.at
    /\ \E k \in 1..NumReal : Real[k].startTime < currentTime /\ Real[k].endTime = currentTime
    /\ frame.lines.current = null
    /\ frame.lines.prev # null /\ frame.lines.next # null

----------------------------------------------------------------------------
(* C2: for real lines ordered by start with non-overlapping windows, the   *)
(* selection at every t is in exactly one of the classes before-first,     *)
(* in-line, in-gap, after-last, and from one tick to the next the          *)
(* selection never moves backward along the timeline.                      *)
IsBeforeFirstClass(sel) == sel.prev = null /\ sel.current = null /\ sel.next = At(1)

IsInLineClass(sel) == sel.current # null

IsInGapClass(sel) == sel.current = null /\ sel.prev # null /\ sel.next # null

IsAfterLastClass(sel) == sel.prev = At(NumReal) /\ sel.current = null /\ sel.next = null

ClassesOf(sel) ==
    {c \in {"before-first", "in-line", "in-gap", "after-last"} :
        \/ c = "before-first" /\ IsBeforeFirstClass(sel)
        \/ c = "in-line" /\ IsInLineClass(sel)
        \/ c = "in-gap" /\ IsInGapClass(sel)
        \/ c = "after-last" /\ IsAfterLastClass(sel)}

PositionOfLine(opt) == Max({k \in 1..NumReal : Real[k] = opt[1]} \cup {0})

(* Place of a selection on the timeline: 0 before the first line, 2k - 1   *)
(* inside line k, 2k once line k is the previous line.                     *)
TimelinePlace(sel) ==
    IF sel.current # null THEN 2 * PositionOfLine(sel.current) - 1
    ELSE IF sel.prev # null THEN 2 * PositionOfLine(sel.prev)
    ELSE 0

C2_FourClassesInOrder ==
    (LiveRendered /\ NumReal > 0 /\ NonOverlapping) =>
        /\ Cardinality(ClassesOf(Shown)) = 1
        /\ currentTime > 0 =>
              TimelinePlace(lyricLinesAt(timedLyrics, currentTime - 1))
                  <= TimelinePlace(Shown)

(* Three real lines with room between them, the position in the second gap *)
C2_Witness ==
    /\ LiveRendered
    /\ NumReal = 3 /\ NonOverlapping
    /\ ClassesOf(Shown) = {"in-gap"}
    /\ lyricLines.prev = At(2)
    /\ Real[1].endTime > Real[1].startTime

----------------------------------------------------------------------------
(* C3: a real line whose window [startTime, endTime) holds t is current,   *)
(* with its neighbours in the list as previous and next; no line is        *)
(* current at its own endTime.                                             *)
C3_CurrentAndNeighbours ==
    LiveRendered =>
        /\ NonOverlapping =>
             \A k \in 1..NumReal :
                Contains(Real[k], currentTime) =>
                    Shown = Selection(At(k - 1), At(k), At(k + 1))
        /\ \A k \in 1..NumReal :
              currentTime = Real[k].endTime => lyricLines.current # At(k)

(* Position inside the middle one of three lines *)
C3_Witness ==
    /\ LiveRendered
    /\ NumReal = 3 /\ NonOverlapping
    /\ Contains(Real[2], currentTime)
    /\ lyricLines.current = At(2)

----------------------------------------------------------------------------
(* C4: before the first real line starts nothing is previous or current    *)
(* and the first real line is next.                                        *)
C4_BeforeFirst ==
    (LiveRendered /\ NumReal > 0 /\ currentTime < Real[1].startTime) =>
        Shown = Selection(null, null, At(1))

(* A position inside the silent intro that precedes the first real line *)
C4_Witness ==
    /\ LiveRendered
    /\ NumReal > 0 /\ currentTime < Real[1].startTime
    /\ Len(timedLyrics) > NumReal
    /\ lyricLines.next = At(1)

----------------------------------------------------------------------------
(* C5: from the end of the last real line on, that line stays previous and *)
(* nothing is current or next.                                             *)
C5_AfterLast ==
    (LiveRendered /\ NumReal > 0 /\ currentTime >= Real[NumReal].endTime) =>
        Shown = Selection(At(NumReal), null, null)

(* The position at the end of the track, after the last of several lines *)
C5_Witness ==
    /\ LiveRendered
    /\ NumReal >= 2 /\ currentTime = duration
    /\ currentTime > Real[NumReal].endTime
    /\ lyricLines.prev = At(NumReal)

----------------------------------------------------------------------------
(* C6: in a gap (no line holds t, t at or after the first start and before *)
(* the last end) nothing is current, previous is the line of highest index *)
(* that has ended and next is the line after it.                           *)
InGap(t) ==
    /\ NumReal > 0
    /\ \A k \in 1..NumReal : ~Contains(Real[k], t)
    /\ t >= Real[1].startTime
    /\ t < Real[NumReal].endTime

LastEnded(t) == Max({k \in 1..NumReal : Real[k].endTime <= t} \cup {0})

C6_Gap ==
    (LiveRendered /\ InGap(currentTime)) =>
        /\ LastEnded(currentTime) > 0
        /\ Shown = Selection(At(LastEnded(currentTime)), null,
                                  At(LastEnded(currentTime) + 1))

(* A gap that has two ended lines before it *)
C6_Witness ==
    /\ LiveRendered
    /\ InGap(currentTime)
    /\ LastEnded(currentTime) = 2
    /\ lyricLines.prev = At(2) /\ lyricLines.next = At(3)

----------------------------------------------------------------------------
(* C7: no line without visible text is ever previous, current or next; the *)
(* list made of a silent intro over [0 s, 5 s) and line A over [5 s, 8 s)  *)
(* gives, at 3 s, nothing previous, nothing current and A next.            *)
ShownLines(sel) ==
    {sel.prev[k] : k \in 1..Len(sel.prev)}
    \cup {sel.current[k] : k \in 1..Len(sel.current)}
    \cup {sel.next[k] : k \in 1..Len(sel.next)}

C7_SilentLinesExcluded ==
    /\ \A l \in ShownLines(Shown) \cup ShownLines(frame.lines) :
          l.text # <<>> /\ HasVisibleText(l)
    /\ (LiveRendered /\ timedLyrics = <<Line(<<>>, 0, Seconds(5)), LineA>>
            /\ currentTime = Seconds(3)) =>
          Shown = Selection(null, null, <<LineA>>)

C7_Witness ==
    /\ LiveRendered
    /\ timedLyrics = <<Line(<<>>, 0, Seconds(5)), LineA>>
    /\ currentTime = Seconds(3)
    /\ lyricLines.next = <<LineA>>

----------------------------------------------------------------------------
(* C8: one real line from 10 s to 12 s.  Just before 10 s nothing is       *)
(* current and the line is next; at 10 s it is current with reveal         *)
(* fraction 0; at 11 s the fraction is 1/2; at 12 s nothing is current and *)
(* the line is previous.                                                   *)
HelloOnly == Real = <<LineHello>>

C8_HelloRoundTrip ==
    /\ (HelloOnly /\ LiveRendered /\ currentTime = Seconds(10) - 1) =>
          lyricLines.current = null /\ lyricLines.next = <<LineHello>>
    /\ (HelloOnly /\ FrameRendered) =>
          /\ frame.frameTime = frameTimeOf(10 * frameRate - 1) =>
                frame.lines.current = null /\ frame.lines.next = <<LineHello>>
          /\ frame.frameTime = Seconds(10) =>
                /\ frame.lines.current = <<LineHello>>
                /\ frame.progress # null /\ QuotientIs(frame.progress[1], 0, 1)
          /\ frame.frameTime = Seconds(11) =>
                /\ frame.lines.current = <<LineHello>>
                /\ frame.progress # null /\ QuotientIs(frame.progress[1], 1, 2)
          /\ frame.frameTime = Seconds(12) =>
                /\ frame.lines.current = null /\ frame.lines.prev = <<LineHello>>
                /\ frame.progress = null

(* The frame half way through the line *)
C8_Witness ==
    /\ HelloOnly /\ FrameRendered
    /\ frame.frameTime = Seconds(11)
    /\ frame.progress # null

----------------------------------------------------------------------------
(* C9: whenever a frame has a current line, the reveal fraction that sizes *)
(* its clip is (t - startTime) / (endTime - startTime) clamped to [0, 1],  *)
(* and lies in [0, 1].                                                     *)
C9_RevealClamped ==
    (FrameRendered /\ frame.lines.current # null) =>
        LET line    == frame.lines.current[1]
            clamped == Clamp01(frame.frameTime - line.startTime,
                               line.endTime - line.startTime)
        IN  /\ frame.progress # null
            /\ line.endTime - line.startTime > 0
            /\ QuotientIs(frame.progress[1], clamped.num, clamped.den)
            /\ InUnitInterval(frame.progress[1])

(* A frame strictly inside its current line, after an earlier line *)
C9_Witness ==
    /\ FrameRendered /\ frame.lines.current # null /\ frame.lines.prev # null
    /\ frame.progress # null
    /\ frame.progress[1].num > 0

----------------------------------------------------------------------------
(* C10 as stated: a real line whose endTime equals its startTime is drawn  *)
(* with reveal fraction 1 at its instant.                                  *)
ZeroLengthAt(t) == {k \in 1..NumReal : Real[k].startTime = t /\ Real[k].endTime = t}

----------------------------------------------------------------------------
(* The background the selection rule of the player names at time t: the    *)
(* cover image when nothing was generated, else the first generated image  *)
(* in list order whose window holds t, else the first of the list.         *)
WindowsHolding(t) ==
    {k \in 1..Len(aiImages) :
        aiImages[k].startTime <= t /\ t < aiImages[k].endTime}

BackgroundAt(t) ==
    IF aiImages = <<>> THEN imageUrl
    ELSE IF WindowsHolding(t) = {} THEN aiImages[1].url
    ELSE aiImages[Min(WindowsHolding(t))].url

(* C11: at every time t, negative and past the duration included, the     *)
(* live background and the background of the exported frame are the cover  *)
(* image when no image was generated; otherwise the first generated image  *)
(* in list order whose window holds t, and the first image of the list     *)
(* when no window holds t.                                                 *)
C11_BackgroundSelection ==
    /\ LiveRendered => currentBg.current = BackgroundAt(currentTime)
    /\ FrameRendered => frame.bgUrl = BackgroundAt(frame.frameTime)

(* Two generated images, the second one the last to have ended, no window  *)
(* holding t: the live player and the frame both show the first image.     *)
C11_Witness ==
    /\ LiveRendered /\ FrameRendered
    /\ Len(aiImages) = 2
    /\ WindowsHolding(currentTime) = {}
    /\ aiImages[1].endTime < aiImages[2].endTime
    /\ aiImages[2].startTime < aiImages[2].endTime
    /\ aiImages[2].endTime <= currentTime
    /\ currentBg.current = aiImages[1].url
    /\ frame.bgUrl = aiImages[1].url

----------------------------------------------------------------------------
(* C12: what the player derives for a position t (previous, current and    *)
(* next line, background) is what it derived for t at any earlier moment   *)
(* of the run, whatever positions were rendered in between and in whatever *)
(* order (forward by playback, backward or repeated by seeks).             *)
C12_OrderIndependent ==
    (probe # <<>> /\ probe[1].at = currentTime) =>
        /\ probe[1].lines = Shown
        /\ probe[1].bg = currentBg.current

(* The player, playing, is back at the observed position after it has      *)
(* rendered a later one (a backward seek), with a current line and         *)
(* generated images.                                                       *)
C12_Witness ==
    /\ probe # <<>> /\ probe[1].at = currentTime
    /\ probe[1].later
    /\ probe[1].lines.current # null
    /\ probe[1].lines = Shown
    /\ aiImages # <<>>
    /\ probe[1].bg = currentBg.current
    /\ isPlaying

----------------------------------------------------------------------------
(* The frames of the export whose frame time is the displayed position. *)
FramesAtPosition == {i \in 0..(totalFrames - 1) : frameTimeOf(i) = currentTime}

(* C13: whenever the live player stands at a position t inside a current   *)
(* line, after any plays, pauses and seeks, the fraction of the line its   *)
(* reveal animation shows (elapsed / total) is the fraction the export     *)
(* renders for the frame at frameTime = t.                                 *)
C13_LiveRevealMatchesExport ==
    \A i \in FramesAtPosition :
        (lyricLines.current # null /\ RenderFrame(i).progress # null) =>
            reveal.elapsed * RenderFrame(i).progress[1].den
                = RenderFrame(i).progress[1].num * reveal.total

----------------------------------------------------------------------------
(* C14: the export counts totalFrames = floor(duration * frameRate) frames *)
(* and samples frame i, for i in 0 .. totalFrames - 1, at i / frameRate;   *)
(* a song of 2.0 s at 30 frames per second has exactly 60 frames and its   *)
(* frame 30 is sampled at 1.0 s.                                           *)
C14_FrameClock ==
    /\ totalFrames * TickRate <= duration * frameRate
    /\ duration * frameRate < (totalFrames + 1) * TickRate
    /\ duration = Seconds(2) => totalFrames = 60
    /\ FrameRendered =>
          /\ frame.index \in 0..(totalFrames - 1)
          /\ frame.frameTime * frameRate = frame.index * TickRate
          /\ (duration = Seconds(2) /\ frame.index = 30) =>
                 frame.frameTime = Seconds(1)

(* Frame 30 of the song of 2.0 s, rendered. *)
C14_Witness ==
    /\ FrameRendered
    /\ duration = Seconds(2)
    /\ totalFrames = 60
    /\ frame.index = 30
    /\ frame.frameTime = Seconds(1)
    /\ frame.lines.current = Some(LineShort)

----------------------------------------------------------------------------
(* Vocabulary of the export properties. *)
InFlight == {j \in Jobs : jobs[j].pc \notin {"idle", "done", "failed"}}

Finished == {j \in Jobs : jobs[j].pc \in {"done", "failed"}}

(* C15: within one export the frames handed to the encoder are 0, 1, 2,    *)
(* ... in this order, none dropped and none written twice; frame i is      *)
(* drawn only when the writes of all frames before it are complete, and    *)
(* the encoder is run only when all totalFrames frames are written.        *)
C15_FramesInOrder ==
    \A j \in Jobs :
        /\ \A k \in 1..Len(jobs[j].written) : jobs[j].written[k] = k - 1
        /\ Len(jobs[j].written) <= totalFrames
        /\ jobs[j].pc = "frame" => Len(jobs[j].written) = jobs[j].i
        /\ jobs[j].pc \in {"run", "done"} => Len(jobs[j].written) = totalFrames

(* An export of three frames that is done while a later one is still       *)
(* writing its frames.                                                     *)
C15_Witness ==
    /\ totalFrames = ExportFrames
    /\ \E j \in Jobs :
          /\ jobs[j].pc = "done"
          /\ jobs[j].written = <<0, 1, 2>>
    /\ \E j \in Jobs :
          /\ jobs[j].pc = "frame"
          /\ jobs[j].written = <<0>>

----------------------------------------------------------------------------
(* C16: once an export is over, done or failed at whatever step, the file  *)
(* system of the shared encoder holds no file that this export wrote: no   *)
(* frame, no input.mp3, no output.mp4.                                     *)
C16_NothingLeftBehind ==
    \A j \in Finished : \A f \in FS : f.by # j

----------------------------------------------------------------------------
(* C17: at most one export is in flight on the shared encoder at any time. *)
C17_OneExportInFlight == Cardinality(InFlight) <= 1

----------------------------------------------------------------------------
(* C18: when the load of one of the preloaded images (the cover or a       *)
(* generated image) fails, the export ends with an error: it has drawn and *)
(* written no frame, has not run the encoder and has triggered no          *)
(* download.                                                               *)
C18_PreloadFailureAborts ==
    \A j \in Jobs :
        jobs[j].unloaded # "" =>
            /\ jobs[j].pc = "failed"
            /\ jobs[j].alerts = 1
            /\ jobs[j].drawn = 0
            /\ jobs[j].written = <<>>
            /\ \A k \in 1..Len(jobs[j].calls) : jobs[j].calls[k] # run
            /\ ~jobs[j].downloaded

(* The second generated image failed to load in an export whose audio was  *)
(* already written.                                                        *)
C18_Witness ==
    \E j \in Jobs :
        /\ jobs[j].unloaded = Urls[2]
        /\ jobs[j].pc = "failed"
        /\ jobs[j].err = "preload"
        /\ totalFrames = ExportFrames
        /\ jobs[j].calls = <<load, Call("writeFile", InputMp3)>>

----------------------------------------------------------------------------
(* C19: the step in which an export fails, at whatever point, finds that   *)
(* this export has triggered no download and shows its one and only error  *)
(* message; it clears the exporting flag and the export progress and       *)
(* leaves the play state, the position and the generated images as they    *)
(* were.                                                                   *)
Fails(j) == jobs[j].pc # "failed" /\ jobs'[j].pc = "failed"

C19_FailureRestores ==
    [][\A j \in Jobs :
          Fails(j) =>
              /\ ~jobs'[j].downloaded
              /\ jobs'[j].alerts = 1
              /\ isExporting' = FALSE
              /\ exportProgress' = null
              /\ UNCHANGED <<isPlaying, currentTime, audio, aiImages>>]_vars

----------------------------------------------------------------------------
(* The audio position is within 0.1 s of the end of the song. *)
WithinTenthOfEnd(t) == t * 10 >= duration * 10 - TickRate

(* C20: a play command given while the clock is not playing makes it       *)
(* playing (play state and audio element), with the audio position set to  *)
(* 0 when it was within 0.1 s of the duration and left as it was           *)
(* otherwise; a pause command given while it is playing makes it paused    *)
(* and changes neither the audio position nor the displayed position.      *)
C20_PlayPause ==
    [][handlePlayPause =>
          IF ~isPlaying
          THEN /\ isPlaying'
               /\ ~audio'.paused
               /\ audio'.currentTime =
                     IF WithinTenthOfEnd(audio.currentTime) THEN 0
                     ELSE audio.currentTime
          ELSE /\ ~isPlaying'
               /\ audio'.paused
               /\ audio'.currentTime = audio.currentTime
               /\ currentTime' = currentTime]_vars

(* Play was pressed with the position within 0.1 s of the end but not at   *)
(* the end: the audio plays from 0 while the display, not yet refreshed,   *)
(* still shows the old position.                                           *)
C20_Witness ==
    /\ isPlaying
    /\ ~audio.paused
    /\ audio.currentTime = 0
    /\ WithinTenthOfEnd(currentTime)
    /\ currentTime < duration

----------------------------------------------------------------------------
(* C21: when the audio reaches its end while the clock is playing, the     *)
(* ended notification makes the clock not playing and the displayed        *)
(* position exactly the duration; a play command given with the audio      *)
(* still at its end starts the audio again from position 0.                *)
AtEnd == audio.currentTime = duration

C21_EndOfAudio ==
    [][/\ endedHandler =>
             /\ ~isPlaying'
             /\ currentTime' = duration
       /\ (handlePlayPause /\ ~isPlaying /\ AtEnd) =>
             /\ isPlaying'
             /\ ~audio'.paused
             /\ audio'.currentTime = 0]_vars

(* The song was played to its end, the display snapped to the duration,    *)
(* and play was pressed again: the audio runs from 0 and the display, not  *)
(* yet refreshed, still shows the duration.                                *)
C21_Witness ==
    /\ isPlaying
    /\ ~audio.paused
    /\ audio.currentTime = 0
    /\ currentTime = duration
    /\ lyricLines.at = duration
    /\ animationFrameRef.pending = 1

----------------------------------------------------------------------------
(* C22: a seek to the time x sets the audio position and the displayed     *)
(* position to x in the same step, whether the clock is playing or not,    *)
(* and leaves the play state, the paused flag of the audio and the pending *)
(* refresh callback as they were.                                          *)
C22_Seek ==
    [][\A x \in 0..duration :
          seekTo(x) =>
             /\ audio'.currentTime = x
             /\ currentTime' = x
             /\ lyricLines'.at = x
             /\ isPlaying' = isPlaying
             /\ audio'.paused = audio.paused
             /\ animationFrameRef' = animationFrameRef]_vars

(* A seek while playing into the middle of the second line: the audio and  *)
(* the display stand at the same position past the start of the line, the  *)
(* line has just been mounted, and the clock still plays.                  *)
C22_Witness ==
    /\ isPlaying
    /\ ~audio.paused
    /\ animationFrameRef.pending = 1
    /\ currentTime = audio.currentTime
    /\ lyricLines.at = currentTime
    /\ lyricLines.current # null
    /\ lyricLines.prev # null
    /\ currentTime = lyricLines.current[1].startTime + 1
    /\ reveal.elapsed = 0

----------------------------------------------------------------------------
(* C23: while the clock is not playing no refresh callback runs, so none   *)
(* samples the audio position, and a step that changes the displayed       *)
(* position, the lyric selection or the background is a seek, the ended    *)
(* notification or the metadata-loaded notification; this holds in every   *)
(* order of the play and pause commands, the refresh callbacks and the     *)
(* passing of time.                                                        *)
DisplayChanges ==
    \/ currentTime' # currentTime
    \/ lyricLines' # lyricLines
    \/ currentBg' # currentBg

C23_NoSamplingWhilePaused ==
    [][~isPlaying =>
          /\ animationFrameRef.pending = 0
          /\ ~animate
          /\ DisplayChanges =>
                (handleTimelineChange \/ endedHandler \/ onLoadedMetadata)]_vars

(* Paused after the audio had moved on and before a callback sampled it:   *)
(* the callback was cancelled and the display keeps the older position.    *)
C23_Witness ==
    /\ ~isPlaying
    /\ ~loading
    /\ audio.paused /\ ~audio.ended
    /\ animationFrameRef.current
    /\ animationFrameRef.pending = 0
    /\ 0 < currentTime
    /\ currentTime < audio.currentTime

----------------------------------------------------------------------------
(* C24: a step in which the generation fails shows exactly one error       *)
(* message, leaves the list of generated images as it was, empty, and      *)
(* clears the generating flag and the generation progress; as long as the  *)
(* failed call is the last one, the background selected for every t is the *)
(* static image, the one displayed included, and the play/pause command,   *)
(* the seek and the export can be given.  The play/pause command can be    *)
(* given in every such state, so the seek is looked at once for each of    *)
(* them, on the step that gives that command.                              *)
GenerationFails == generation'.alerts # generation.alerts

GenerationFailed == generation.pc = "failed"

PlayPauseGiven == isPlaying' # isPlaying /\ audio'.paused # audio.paused

C24_GenerationFailure ==
    [][/\ GenerationFails =>
             /\ generation'.alerts = generation.alerts + 1
             /\ aiImages' = aiImages
             /\ aiImages' = <<>>
             /\ ~isGeneratingAi'
             /\ aiGenerationProgress' = null
       /\ GenerationFailed =>
             /\ aiImages = <<>>
             /\ ~isGeneratingAi
             /\ aiGenerationProgress = null
             /\ currentBg.current = imageUrl
             /\ \A t \in 0..duration : currentBgAt(aiImages, t).current = imageUrl
             /\ ENABLED handlePlayPause
             /\ ENABLED handleExport
             /\ PlayPauseGiven => ENABLED handleTimelineChange]_vars

(* The request for the second image failed after the first image had been  *)
(* received, while the song was playing: one message was shown, the image  *)
(* received is not in the list, and the player has played on since.        *)
C24_Witness ==
    /\ GenerationFailed
    /\ generation.alerts = 1
    /\ generation.i = 1
    /\ generation.generatedImages # <<>>
    /\ aiImages = <<>>
    /\ ~isGeneratingAi
    /\ isPlaying
    /\ currentTime > GridStep
    /\ currentBg.current = imageUrl

----------------------------------------------------------------------------
(* C25: for the current line of a frame the reveal fraction never          *)
(* decreases as t runs over the window [startTime, endTime) of the line,   *)
(* and computing it again for the same line and the same t gives the       *)
(* value the frame was drawn with.                                         *)
QuotientLeq(p, q) == p.den > 0 /\ q.den > 0 /\ p.num * q.den <= q.num * p.den

C25_RevealMonotone ==
    (FrameRendered /\ frame.lines.current # null) =>
        LET line == frame.lines.current[1]
        IN  /\ \A t \in line.startTime..(line.endTime - 2) :
                  QuotientLeq(karaokeProgress(line, t), karaokeProgress(line, t + 1))
            /\ \A t \in line.startTime..(line.endTime - 1) :
                  /\ t <= frame.frameTime =>
                        QuotientLeq(karaokeProgress(line, t), frame.progress[1])
                  /\ t >= frame.frameTime =>
                        QuotientLeq(frame.progress[1], karaokeProgress(line, t))
            /\ frame.progress = Some(karaokeProgress(line, frame.frameTime))

(* A frame inside a line that lasts several seconds, neither at its start  *)
(* nor at its last tick.                                                   *)
C25_Witness ==
    /\ FrameRendered /\ frame.lines.current # null
    /\ frame.lines.current[1].endTime - frame.lines.current[1].startTime >= Seconds(2)
    /\ frame.frameTime > frame.lines.current[1].startTime + Seconds(1)
    /\ frame.frameTime < frame.lines.current[1].endTime - 1

----------------------------------------------------------------------------
(* C26: whenever the clock is playing a refresh callback is pending, and   *)
(* every refresh callback that runs sets the displayed position to the     *)
(* position of the audio; this after any plays, pauses, seeks, ends of the *)
(* audio and changes of the duration.                                      *)
C26_RefreshWhilePlaying ==
    [][/\ isPlaying => animationFrameRef.pending > 0
       /\ isPlaying' => animationFrameRef'.pending > 0
       /\ animate => currentTime' = audio.currentTime]_vars

----------------------------------------------------------------------------
(* C27: at most one refresh callback is pending at any time; when the      *)
(* clock is not playing, the cancellation having run with the step that    *)
(* left the playing state, none is pending; and the cancellation run again *)
(* after a cancellation, by the cleanup of either effect or by the effect  *)
(* body, changes nothing and leaves no callback pending.                   *)
C27_OnePendingCallback ==
    LET once == cancelAnimationFrame(animationFrameRef)
    IN  /\ animationFrameRef.pending \in {0, 1}
        /\ ~isPlaying =>
              /\ animationFrameRef.pending = 0
              /\ ~animationFrameRef.live
              /\ once = animationFrameRef
        /\ once.pending = 0
        /\ cancelAnimationFrame(once) = once
        /\ durationCleanup(once) = once
        /\ playingEffect(once, FALSE) = once

(* Paused after the chain of callbacks had run for a while: the last       *)
(* callback sampled the audio, asked for the next one, and that one was    *)
(* cancelled by the cleanup and again by the body of the effect.           *)
C27_Witness ==
    /\ ~isPlaying
    /\ audio.paused /\ ~audio.ended
    /\ animationFrameRef = [current |-> TRUE, live |-> FALSE, pending |-> 0]
    /\ audio.currentTime > 1
    /\ currentTime = audio.currentTime
    /\ duration # mediaDuration

----------------------------------------------------------------------------
(* C28: the calls of one export into the encoder are, in this order: load  *)
(* (called exactly if the encoder is not loaded when the export starts),   *)
(* the write of input.mp3, the writes of the frames 0 .. totalFrames - 1,  *)
(* one run, the read of output.mp4, and the unlinks; an export that stops  *)
(* early has made a prefix of them.  So run is not called before every     *)
(* frame is written, and output.mp4 is not read while the export still     *)
(* awaits the run.                                                         *)
IsPrefix(p, q) == Len(p) <= Len(q) /\ \A k \in 1..Len(p) : p[k] = q[k]

CallsOfExport ==
    <<Call("writeFile", InputMp3)>>
    \o [k \in 1..totalFrames |-> Call("writeFile", FrameJpg(k - 1))]
    \o <<run, Call("readFile", OutputMp4)>>
    \o [k \in 1..totalFrames |-> Call("unlink", FrameJpg(k - 1))]
    \o <<Call("unlink", InputMp3), Call("unlink", OutputMp4)>>

Starts(j) == jobs[j].pc = "idle" /\ jobs'[j].pc # "idle"

C28_EncoderCallOrder ==
    [][\A j \in Jobs :
          /\ Starts(j) => (jobs'[j].calls = <<load>>) = ~ffmpeg.loaded
          /\ Starts(j) => (jobs'[j].calls = <<>>) = ffmpeg.loaded
          /\ \/ IsPrefix(jobs'[j].calls, CallsOfExport)
             \/ IsPrefix(jobs'[j].calls, <<load>> \o CallsOfExport)
          /\ jobs'[j].pc = "run" => jobs'[j].calls[Len(jobs'[j].calls)] = run
          /\ jobs'[j].pc \in {"load", "audio", "preload", "frame", "run"} =>
                \A k \in 1..Len(jobs'[j].calls) : jobs'[j].calls[k].op # "readFile"]_vars

(* Two exports of three frames, one after the other, both done: the first  *)
(* loaded the encoder, the second did not, and each made all its calls.    *)
C28_Witness ==
    /\ totalFrames = ExportFrames
    /\ \E j \in Jobs : jobs[j].pc = "done" /\ jobs[j].calls = <<load>> \o CallsOfExport
    /\ \E j \in Jobs : jobs[j].pc = "done" /\ jobs[j].calls = CallsOfExport

----------------------------------------------------------------------------
(* C29: the progress an export reports for its frame i is                  *)
(* 10 + floor(80 * i / totalFrames), a value from 10 up to but not         *)
(* including 90; the values one export reports are never above 100 and     *)
(* never decrease, and those of an export that is done are 0, 5, the       *)
(* values of the frames 0 .. totalFrames - 1, 90 and 99.                   *)
NonDecreasing(r) == \A k \in 1..(Len(r) - 1) : r[k] <= r[k + 1]

C29_ExportProgress ==
    \A j \in Jobs :
        LET r == jobs[j].reported
        IN  /\ \A k \in 1..Len(r) : 0 <= r[k] /\ r[k] <= 100
            /\ NonDecreasing(r)
            /\ \A i \in 0..(jobs[j].drawn - 1) :
                  /\ Len(r) >= i + 3
                  /\ r[i + 3] = 10 + (80 * i) \div totalFrames
                  /\ 10 <= r[i + 3] /\ r[i + 3] < 90
            /\ jobs[j].pc = "done" =>
                  /\ jobs[j].drawn = totalFrames
                  /\ Len(r) = totalFrames + 4
                  /\ r[1] = 0 /\ r[2] = 5
                  /\ r[totalFrames + 3] = 90 /\ r[totalFrames + 4] = 99

(* An export of three frames that is done: its frames reported 10, 36 and  *)
(* 63.                                                                     *)
C29_Witness ==
    /\ totalFrames = ExportFrames
    /\ \E j \in Jobs :
          /\ jobs[j].pc = "done"
          /\ jobs[j].drawn = totalFrames
          /\ jobs[j].reported[3] = 10
          /\ jobs[j].reported[totalFrames + 2] > 60
          /\ jobs[j].reported[totalFrames + 4] = 99

----------------------------------------------------------------------------
(* C30: for real lines ordered by start time, each with startTime <=       *)
(* endTime, whose windows do not overlap, the live selection and the       *)
(* selection of a frame are all absent only if there is no real line, and  *)
(* with a real line the scans never come to their last return: the         *)
(* position is before the first line, at or past the end of the last, in   *)
(* a line, or at or past the end of some line.                             *)
AllAbsent == Selection(null, null, null)

StartsBeforeEnds == \A k \in 1..NumReal : Real[k].startTime <= Real[k].endTime

SortedByStart == \A k \in 1..(NumReal - 1) : Real[k].startTime <= Real[k + 1].startTime

LiveFallsThrough ==
    LET real == realLyrics(timedLyrics)
    IN  /\ Len(real) > 0
        /\ ~isBeforeFirst(real, currentTime)
        /\ ~isAfterLast(real, currentTime)
        /\ currentIndex(real, currentTime) = 0
        /\ prevLyricIndex(real, currentTime) = 0

ExportFallsThrough ==
    LET real == realLyrics(timedLyrics)
    IN  /\ Len(real) > 0
        /\ ~(frame.frameTime < real[1].startTime)
        /\ ~(frame.frameTime >= real[Len(real)].endTime)
        /\ exportCurrentIndex(real, frame.frameTime) = 0
        /\ exportPrevLyricIndex(real, frame.frameTime) = 0

C30_NeverAllAbsent ==
    (SortedByStart /\ StartsBeforeEnds /\ NonOverlapping) =>
        /\ LiveRendered =>
              /\ Shown = AllAbsent => NumReal = 0
              /\ ~LiveFallsThrough
        /\ FrameRendered =>
              /\ frame.lines = AllAbsent => NumReal = 0
              /\ ~ExportFallsThrough

(* The position is the instant of a first real line of length zero that is *)
(* followed by a further line: it is not before the first line, in no      *)
(* line, and the backward scan finds the first line.                       *)
C30_Witness ==
    /\ LiveRendered /\ FrameRendered
    /\ SortedByStart /\ StartsBeforeEnds /\ NonOverlapping
    /\ NumReal >= 2
    /\ Real[1].startTime = currentTime /\ Real[1].endTime = currentTime
    /\ Real[2].startTime > currentTime
    /\ Shown = Selection(At(1), null, At(2))
    /\ frame.lines = Shown

====
